---- MODULE Spec2Model ----
(***************************************************************************)
(* Model of the parallel deep-research stream multiplexer.                 *)
(*                                                                         *)
(*   src/src/app/api/deep-research/route.ts                                *)
(*     runSingleDeepResearch : one async generator per query, wrapping an  *)
(*                             upstream event stream of the research API   *)
(*     POST                  : validation, then the merge loop racing one  *)
(*                             pending next() promise per generator and    *)
(*                             writing one SSE frame per yielded event     *)
(*                                                                         *)
(* A step of the model is one synchronous stretch of JavaScript between    *)
(* two awaits: a generator running from the resumption of its upstream     *)
(* await to its next yield/return/throw, or the merge loop running from    *)
(* the resumption of `await Promise.race(...)` to the next such await.     *)
(* The settling of a promise and the loop's continuation are separate      *)
(* steps: further promises may settle between the two.                     *)
(* An event is its type, its job and, for its payload, the position of     *)
(* the upstream event it was made from; timestamps are left out.           *)
(*                                                                         *)
(*   src/unnamed/part_001 (research-stream.tsx)                            *)
(*     startAllResearch      : the reader loop that decodes each chunk of  *)
(*                             the response into events                    *)
(*                                                                         *)
(* TransportSpec adds a consumer that reads and may cancel the response    *)
(* stream; DecoderSpec and ChunkSpec give frames to the client's reader    *)
(* loop, whole or cut by the transport.                                    *)
(***************************************************************************)
EXTENDS Integers, Sequences, FiniteSets, TLC

(* ---------------------------- bounds ---------------------------------- *)
\* largest number of entries of a request's query list
MaxProducers == 3
\* largest number of upstream events delivered to all generators of a run
MaxEvents == 2
\* largest number of entries of a query list in the runs checked for
\* termination
LiveMaxProducers == 2

(* --------------------------- vocabulary ------------------------------- *)
\* value of a `job` field that is absent
NoJob == -1

\* event types of the upstream response stream that the generator tests,
\* and "other" for every type it ignores
UpTypes ==
  {"response.output_text.delta", "response.output_text.done",
   "response.web_search_call.searching", "response.web_search_call.completed",
   "response.completed", "response.failed", "other"}

\* a query-list entry: TRUE is a non-empty string, FALSE an empty or
\* missing one (falsy in `!q`)
QueryLists ==
  UNION {[1..n -> BOOLEAN] : n \in 0..MaxProducers}

\* request bodies: { queries: [...] } or { query: ... } (query missing is
\* the falsy entry)
Bodies ==
  {[isArray |-> TRUE, queries |-> l, query |-> FALSE] : l \in QueryLists}
  \cup {[isArray |-> FALSE, queries |-> <<>>, query |-> b] : b \in BOOLEAN}

VARIABLES
  pc,               \* position of POST: "idle", "rejected", "loop", "done",
                    \* "failed" (catch block ran), "aborted" (start() rejected)
  queries,          \* the accepted query list
  gst,              \* per generator: "running" (body not finished), "returned", "threw"
  yielded,          \* history: per generator, the events it has yielded so far
  upHist,           \* per generator: upstream events it has consumed so far
  requests,         \* per generator: next() calls whose result the loop has not taken
  pendingPromises,  \* keys of the Map, in insertion order
  winner,           \* generator whose promise settles the current Promise.race
  out,              \* frames enqueued on the stream controller, in order
  closeCount,       \* number of controller.close() calls
  arrived           \* history: generators whose settled result the loop has
                    \* not taken yet, in the order the results settled; kept
                    \* while the loop runs

VARIABLES
  cancelled,        \* the consumer has cancelled the response stream
  readCount         \* number of frames the consumer has read from the stream

transportVars == <<cancelled, readCount>>

VARIABLES
  sent,             \* decoder runs: the events whose frames make the byte stream
  wire,             \* decoder runs: the chunks the reader has not returned yet
  decoded,          \* decoder runs: the events the client has parsed, in order
  split             \* decoder runs: the transport has cut a chunk in two

clientVars == <<sent, wire, decoded, split>>

VARIABLES
  jobs,             \* client: the state `jobs` of ResearchStream, per job id
  isRunning,        \* client: the state `isRunning`
  cpc               \* client: position of startAllResearch: "idle" (not
                    \* running), "fetching" (awaiting fetch), "reading"

uiVars == <<jobs, isRunning, cpc>>

vars == <<pc, queries, gst, yielded, upHist, requests, pendingPromises, winner, out,
          closeCount, arrived, transportVars, clientVars, uiVars>>

Jobs == 0 .. (Len(queries) - 1)

(* ----------------------- runSingleDeepResearch ------------------------ *)
\* mutant of Handle: response.failed is swallowed instead of reported
HandleFailedSilent(t, jobId, k) ==
  IF t = "response.output_text.delta"
    THEN <<[type |-> "content", job |-> jobId, seq |-> k]>>
  ELSE IF t = "response.output_text.done"
    THEN <<[type |-> "text_done", job |-> jobId, seq |-> k]>>
  ELSE IF t = "response.web_search_call.searching"
    THEN <<[type |-> "web_search_searching", job |-> jobId, seq |-> k]>>
  ELSE IF t = "response.web_search_call.completed"
    THEN <<[type |-> "web_search_completed", job |-> jobId, seq |-> k]>>
  ELSE IF t = "response.completed"
    THEN <<[type |-> "done", job |-> jobId, seq |-> k]>>
  ELSE <<>>

\* the events one upstream event makes the generator yield: the body of
\* the for-await loop, one `if` after the other; k is the position of the
\* upstream event in its stream and stands for the payload
Handle(t, jobId, k) ==
  (IF t = "response.output_text.delta"
     THEN <<[type |-> "content", job |-> jobId, seq |-> k]>> ELSE <<>>)
  \o (IF t = "response.output_text.done"
     THEN <<[type |-> "text_done", job |-> jobId, seq |-> k]>> ELSE <<>>)
  \o (IF t = "response.web_search_call.searching"
     THEN <<[type |-> "web_search_searching", job |-> jobId, seq |-> k]>> ELSE <<>>)
  \o (IF t = "response.web_search_call.completed"
     THEN <<[type |-> "web_search_completed", job |-> jobId, seq |-> k]>> ELSE <<>>)
  \o (IF t = "response.completed"
     THEN <<[type |-> "done", job |-> jobId, seq |-> k]>> ELSE <<>>)
  \o (IF t = "response.failed"
     THEN <<[type |-> "error", job |-> jobId, seq |-> k]>> ELSE <<>>)

\* the whole sequence the generator yields when it is iterated alone over
\* the upstream events h
RECURSIVE YieldsOf(_, _)
YieldsOf(h, jobId) ==
  IF h = <<>> THEN <<>>
  ELSE YieldsOf(SubSeq(h, 1, Len(h) - 1), jobId) \o Handle(h[Len(h)], jobId, Len(h))

(* ------------------------------ promises ------------------------------ *)
\* a next() call: st is "pending", "value", "done" or "rejected"; ev the
\* yielded event
NoEv == [type |-> "none", job |-> NoJob, seq |-> 0]
PendingReq == [st |-> "pending", ev |-> NoEv]

Settled(r) == r.st # "pending"

\* index of the oldest unsettled next() call of generator g, 0 if none:
\* an async generator serves its queued next() calls in call order
RECURSIVE FirstPendingFrom(_, _)
FirstPendingFrom(rs, i) ==
  IF i > Len(rs) THEN 0
  ELSE IF rs[i].st = "pending" THEN i
  ELSE FirstPendingFrom(rs, i + 1)

FirstPending(rs) == FirstPendingFrom(rs, 1)

\* the promise the Map holds for generator g: the one of its latest next()
MapPromise(reqs, g) == reqs[g][Len(reqs[g])]

\* mutant of Race: among the promises already settled the last one in Map
\* order wins
RECURSIVE RaceLastFrom(_, _, _)
RaceLastFrom(keys, reqs, i) ==
  IF i < 1 THEN -1
  ELSE IF Len(reqs[keys[i]]) > 0 /\ reqs[keys[i]][Len(reqs[keys[i]])].st # "pending"
    THEN keys[i]
  ELSE RaceLastFrom(keys, reqs, i - 1)

RaceLast(keys, reqs) == RaceLastFrom(keys, reqs, Len(keys))

\* Promise.race(pendingPromises.values()) at the moment it is called: the
\* reactions of the promises already settled are queued in Map order, so
\* the first settled one in Map order wins; NoJob when none has settled
RECURSIVE RaceFrom(_, _, _)
RaceFrom(keys, reqs, i) ==
  IF i > Len(keys) THEN NoJob
  ELSE IF Len(reqs[keys[i]]) > 0 /\ Settled(MapPromise(reqs, keys[i])) THEN keys[i]
  ELSE RaceFrom(keys, reqs, i + 1)

Race(keys, reqs) == RaceFrom(keys, reqs, 1)

\* mutant of MapDelete: the finished generator stays in the Map
MapKeep(keys, g) == keys

\* mutant of MapDelete: the first entry of the Map is deleted
MapDeleteFirst(keys, g) == IF keys = <<>> THEN <<>> ELSE Tail(keys)

\* pendingPromises.delete(gen)
RECURSIVE MapDelete(_, _)
MapDelete(keys, g) ==
  IF keys = <<>> THEN <<>>
  ELSE IF Head(keys) = g THEN Tail(keys)
  ELSE <<Head(keys)>> \o MapDelete(Tail(keys), g)

\* mutant of IssueNext: next() is called on every generator, as in a loop
\* that polls all of them on each iteration
IssueNextEvery(reqs, g) ==
  [j \in DOMAIN reqs |-> Append(reqs[j], [st |-> "pending", ev |-> NoEv])]

\* gen.next(): one more outstanding call on generator g
IssueNext(reqs, g) == [reqs EXCEPT ![g] = Append(@, PendingReq)]

\* for (const gen of generators) pendingPromises.set(gen, gen.next()...)
RECURSIVE FirstNexts(_, _)
FirstNexts(reqs, n) ==
  IF n = 0 THEN reqs ELSE IssueNext(FirstNexts(reqs, n - 1), n - 1)

\* the loop takes the result of the promise the Map holds for g
TakeResult(reqs, g) == [reqs EXCEPT ![g] = SubSeq(@, 1, Len(@) - 1)]

(* ------------------------- the client's jobs -------------------------- *)
\* DEMO_QUERIES.length: the jobs the page shows, with ids 0 .. NumJobs - 1
NumJobs == 2

\* a job as useState creates it
IdleJob == [content |-> <<>>, status |-> "idle", searchCount |-> 0]

\* DEMO_QUERIES.map((query, id) => ({ id, query, content: '', status:
\* 'idle', searchCount: 0 }))
InitialJobs == [id \in 0..(NumJobs - 1) |-> IdleJob]

(* -------------------------------- Init -------------------------------- *)
Init ==
  /\ pc = "idle"
  /\ queries = <<>>
  /\ gst = <<>>
  /\ yielded = <<>>
  /\ upHist = <<>>
  /\ requests = <<>>
  /\ pendingPromises = <<>>
  /\ winner = NoJob
  /\ out = <<>>
  /\ closeCount = 0
  /\ arrived = <<>>
  /\ cancelled = FALSE
  /\ readCount = 0
  /\ sent = <<>>
  /\ wire = <<>>
  /\ decoded = <<>>
  /\ split = FALSE
  /\ jobs = InitialJobs
  /\ isRunning = FALSE
  /\ cpc = "idle"

(* ------------------------------- POST --------------------------------- *)
\* Array.isArray(body.queries) ? body.queries : [body.query]
QueriesOf(body) == IF body.isArray THEN body.queries ELSE <<body.query>>

\* mutant of Invalid: only the length of the list is tested
InvalidLengthOnly(qs) == Len(qs) = 0

\* !queries.length || queries.some((q) => !q)
Invalid(qs) == Len(qs) = 0 \/ \E i \in 1..Len(qs) : ~qs[i]

\* mutant of Enqueue: error events are not forwarded
EnqueueSkipError(o, ev) == IF ev.type = "error" THEN o ELSE Append(o, ev)

\* mutant of Enqueue: the frame of an event is written twice
EnqueueTwice(o, ev) == Append(Append(o, ev), ev)

\* mutant of Enqueue: the frame is not written
EnqueueNone(o, ev) == o

\* controller.enqueue(encoder.encode(`data: ${data}\n\n`))
Enqueue(o, ev) == Append(o, ev)

CompleteEvent == [type |-> "complete", job |-> NoJob, seq |-> 0]
\* the frame of the catch block: { type: 'error', error: message }
FatalErrorFrame == [type |-> "error", job |-> NoJob, seq |-> 0]

\* the request is rejected with status 400 before any stream exists
PostReject(body) ==
  /\ pc = "idle"
  /\ Invalid(QueriesOf(body))
  /\ pc' = "rejected"
  /\ UNCHANGED <<queries, gst, yielded, upHist, requests, pendingPromises,
                 winner, out, closeCount, arrived, transportVars, clientVars,
                 uiVars>>

\* start(controller) up to the first await: one generator per query, the
\* first next() of each, then Promise.race over promises none of which has
\* settled
PostStart(body) ==
  /\ pc = "idle"
  /\ ~Invalid(QueriesOf(body))
  /\ LET n == Len(QueriesOf(body))
     IN /\ queries' = QueriesOf(body)
        /\ gst' = [j \in 0..(n - 1) |-> "running"]
        /\ yielded' = [j \in 0..(n - 1) |-> <<>>]
        /\ upHist' = [j \in 0..(n - 1) |-> <<>>]
        /\ requests' = FirstNexts([j \in 0..(n - 1) |-> <<>>], n)
        /\ pendingPromises' = [i \in 1..n |-> i - 1]
        /\ winner' = Race(pendingPromises', requests')
  /\ pc' = "loop"
  /\ UNCHANGED <<out, closeCount, arrived, transportVars, clientVars, uiVars>>

(* ------------------------- generator steps ---------------------------- *)
\* number of upstream events delivered so far to all generators
RECURSIVE TotalFrom(_, _)
TotalFrom(h, j) ==
  IF j \notin DOMAIN h THEN 0 ELSE Len(h[j]) + TotalFrom(h, j + 1)

TotalUp == TotalFrom(upHist, 0)

\* the oldest unsettled next() of g settles with state st and event ev; if
\* the loop is waiting in a race that nothing has settled yet and this is
\* the promise the Map holds for g, it settles the race
Settle(g, st, ev) ==
  LET i == FirstPending(requests[g])
  IN /\ requests' = [requests EXCEPT ![g][i] = [st |-> st, ev |-> ev]]
     /\ arrived' = IF pc = "loop" THEN Append(arrived, g) ELSE arrived
     /\ yielded' = IF st = "value" THEN [yielded EXCEPT ![g] = Append(@, ev)]
                   ELSE yielded
     /\ winner' = IF /\ pc = "loop"
                     /\ winner = NoJob
                     /\ i = Len(requests[g])
                     /\ \E k \in 1..Len(pendingPromises) : pendingPromises[k] = g
                  THEN g ELSE winner

Asked(g) == FirstPending(requests[g]) # 0

\* mutant of JobIdOf: ids count from one
JobIdOfOneBased(i) == i + 1

\* queries.map((query, index) => runSingleDeepResearch(query, index)): the
\* jobId of the generator opened at index i of the query list
JobIdOf(i) == i

\* the upstream delivers an event of type t to the for-await loop (the
\* first one after responses.create has resolved with the stream): the
\* generator yields what Handle gives, or goes on waiting
GenEvent(g, t) ==
  /\ gst[g] = "running"
  /\ Asked(g)
  /\ TotalUp < MaxEvents
  /\ upHist' = [upHist EXCEPT ![g] = Append(@, t)]
  /\ LET ys == Handle(t, JobIdOf(g), Len(upHist[g]) + 1)
     IN IF ys = <<>>
          THEN UNCHANGED <<requests, arrived, winner, yielded>>
          ELSE Settle(g, "value", ys[1])
  /\ UNCHANGED <<pc, queries, gst, pendingPromises, out, closeCount,
                 transportVars, clientVars, uiVars>>

\* the upstream ends: the for-await loop exits and the generator returns
GenEnd(g) ==
  /\ gst[g] = "running"
  /\ Asked(g)
  /\ gst' = [gst EXCEPT ![g] = "returned"]
  /\ Settle(g, "done", NoEv)
  /\ UNCHANGED <<pc, queries, upHist, pendingPromises, out, closeCount,
                 transportVars, clientVars, uiVars>>

\* responses.create rejects (no upstream event consumed yet), or iterating
\* the upstream throws: nothing in the generator catches it, so the next()
\* in progress rejects
GenThrow(g) ==
  /\ gst[g] = "running"
  /\ Asked(g)
  /\ gst' = [gst EXCEPT ![g] = "threw"]
  /\ Settle(g, "rejected", NoEv)
  /\ UNCHANGED <<pc, queries, upHist, pendingPromises, out, closeCount,
                 transportVars, clientVars, uiVars>>

(* --------------------------- the merge loop --------------------------- *)
\* mutant of LoopBack: the loop ends without the complete frame and close()
LoopBackNoComplete(keys, reqs, o) ==
  /\ pc' = (IF Len(keys) > 0 THEN "loop" ELSE "done")
  /\ winner' = (IF Len(keys) > 0 THEN Race(keys, reqs) ELSE NoJob)
  /\ out' = o
  /\ closeCount' = closeCount

\* from the end of the loop body to the next await: the while test, then
\* either the next Promise.race or the complete frame and close(); on a
\* stream the consumer has cancelled the enqueue of the complete frame
\* throws, and so does the enqueue of the catch block: start() rejects
LoopBack(keys, reqs, o) ==
  IF Len(keys) > 0
    THEN /\ pc' = "loop"
         /\ winner' = Race(keys, reqs)
         /\ out' = o
         /\ closeCount' = closeCount
    ELSE IF cancelled
    THEN /\ pc' = "aborted"
         /\ winner' = NoJob
         /\ out' = o
         /\ closeCount' = closeCount
    ELSE /\ pc' = "done"
         /\ winner' = NoJob
         /\ out' = Enqueue(o, CompleteEvent)
         /\ closeCount' = closeCount + 1

\* history: the settled result of g leaves the arrival record
RECURSIVE Without(_, _)
Without(seq, g) ==
  IF seq = <<>> THEN <<>>
  ELSE IF Head(seq) = g THEN Tail(seq)
  ELSE <<Head(seq)>> \o Without(Tail(seq), g)

Took(g) == Without(arrived, g)

\* mutant of LoopValue: an error event ends its generator, which is
\* deleted from the Map and gets no further next()
LoopValueErrorRemoves ==
  /\ pc = "loop"
  /\ winner # NoJob
  /\ MapPromise(requests, winner).st = "value"
  /\ ~cancelled
  /\ requests' = IF MapPromise(requests, winner).ev.type = "error"
                   THEN TakeResult(requests, winner)
                   ELSE IssueNext(TakeResult(requests, winner), winner)
  /\ pendingPromises' = IF MapPromise(requests, winner).ev.type = "error"
                          THEN MapDelete(pendingPromises, winner)
                          ELSE pendingPromises
  /\ arrived' = Took(winner)
  /\ LoopBack(pendingPromises', requests',
              Enqueue(out, MapPromise(requests, winner).ev))
  /\ UNCHANGED <<queries, gst, yielded, upHist, transportVars, clientVars, uiVars>>

\* the race gave { gen, result } with result.done false: send the event,
\* then set the Map entry of gen to a new next()
LoopValue ==
  /\ pc = "loop"
  /\ winner # NoJob
  /\ MapPromise(requests, winner).st = "value"
  /\ ~cancelled
  /\ requests' = IssueNext(TakeResult(requests, winner), winner)
  /\ pendingPromises' = pendingPromises
  /\ arrived' = Took(winner)
  /\ LoopBack(pendingPromises', requests',
              Enqueue(out, MapPromise(requests, winner).ev))
  /\ UNCHANGED <<queries, gst, yielded, upHist, transportVars, clientVars, uiVars>>

\* the race gave result.done true: delete gen from the Map
LoopDone ==
  /\ pc = "loop"
  /\ winner # NoJob
  /\ MapPromise(requests, winner).st = "done"
  /\ requests' = TakeResult(requests, winner)
  /\ pendingPromises' = MapDelete(pendingPromises, winner)
  /\ arrived' = Took(winner)
  /\ LoopBack(pendingPromises', requests', out)
  /\ UNCHANGED <<queries, gst, yielded, upHist, transportVars, clientVars, uiVars>>

\* mutant of LoopCatch: the catch block reports the failure as an event
\* of the generator that threw and the loop goes on with the others
LoopCatchPerJob ==
  /\ pc = "loop"
  /\ winner # NoJob
  /\ MapPromise(requests, winner).st = "rejected"
  /\ ~cancelled
  /\ requests' = TakeResult(requests, winner)
  /\ pendingPromises' = MapDelete(pendingPromises, winner)
  /\ arrived' = Took(winner)
  /\ LoopBack(pendingPromises', requests',
              Enqueue(out, [type |-> "error", job |-> winner, seq |-> 0]))
  /\ UNCHANGED <<queries, gst, yielded, upHist, transportVars, clientVars, uiVars>>

\* mutant of LoopCatch: the catch block does not close the stream
LoopCatchNoClose ==
  /\ pc = "loop"
  /\ winner # NoJob
  /\ MapPromise(requests, winner).st = "rejected"
  /\ ~cancelled
  /\ requests' = TakeResult(requests, winner)
  /\ arrived' = <<>>
  /\ out' = Enqueue(out, FatalErrorFrame)
  /\ closeCount' = closeCount
  /\ pc' = "failed"
  /\ winner' = NoJob
  /\ UNCHANGED <<queries, gst, yielded, upHist, pendingPromises,
                 transportVars, clientVars, uiVars>>

\* the race rejected: the catch block writes one error frame and closes
LoopCatch ==
  /\ pc = "loop"
  /\ winner # NoJob
  /\ MapPromise(requests, winner).st = "rejected"
  /\ ~cancelled
  /\ requests' = TakeResult(requests, winner)
  /\ arrived' = <<>>
  /\ out' = Enqueue(out, FatalErrorFrame)
  /\ closeCount' = closeCount + 1
  /\ pc' = "failed"
  /\ winner' = NoJob
  /\ UNCHANGED <<queries, gst, yielded, upHist, pendingPromises,
                 transportVars, clientVars, uiVars>>

(* --------------------------- the transport --------------------------- *)
\* the consumer reads the next frame from the response stream
ConsumerRead ==
  /\ ~cancelled
  /\ readCount < Len(out)
  /\ readCount' = readCount + 1
  /\ UNCHANGED <<pc, queries, gst, yielded, upHist, requests, pendingPromises,
                 winner, out, closeCount, arrived, cancelled, clientVars,
                 uiVars>>

\* the consumer disconnects while the run is on: the response stream is
\* cancelled; the underlying source has no cancel() method, so nothing in
\* POST is told
Disconnect ==
  /\ pc = "loop"
  /\ ~cancelled
  /\ cancelled' = TRUE
  /\ UNCHANGED <<pc, queries, gst, yielded, upHist, requests, pendingPromises,
                 winner, out, closeCount, arrived, readCount, clientVars,
                 uiVars>>

\* the race settles on a cancelled stream with a yielded event or with a
\* rejection: controller.enqueue throws (in the try block, then again in
\* the catch block, or in the catch block at once), nothing is written,
\* close() is not reached, no next() is issued and start() rejects
LoopEnqueueThrows ==
  /\ pc = "loop"
  /\ winner # NoJob
  /\ MapPromise(requests, winner).st \in {"value", "rejected"}
  /\ cancelled
  /\ requests' = TakeResult(requests, winner)
  /\ arrived' = <<>>
  /\ pc' = "aborted"
  /\ winner' = NoJob
  /\ UNCHANGED <<queries, gst, yielded, upHist, pendingPromises, out,
                 closeCount, transportVars, clientVars, uiVars>>

(* ------------------------------- Next --------------------------------- *)
Next ==
  \/ \E body \in Bodies : PostReject(body)
  \/ \E body \in Bodies : PostStart(body)
  \/ \E g \in Jobs, t \in UpTypes : GenEvent(g, t)
  \/ \E g \in Jobs : GenEnd(g)
  \/ \E g \in Jobs : GenThrow(g)
  \/ LoopValue
  \/ LoopDone
  \/ LoopCatch

Spec == Init /\ [][Next]_vars

(* ------------------------ auxiliary operators ------------------------- *)
\* the events of o that carry job j, in order
RECURSIVE Restrict(_, _)
Restrict(o, j) ==
  IF o = <<>> THEN <<>>
  ELSE IF Head(o).job = j THEN <<Head(o)>> \o Restrict(Tail(o), j)
  ELSE Restrict(Tail(o), j)

\* number of events of type ty in o
RECURSIVE CountType(_, _)
CountType(o, ty) ==
  IF o = <<>> THEN 0
  ELSE (IF Head(o).type = ty THEN 1 ELSE 0) + CountType(Tail(o), ty)

\* number of occurrences of x in the sequence h
RECURSIVE Occurrences(_, _)
Occurrences(h, x) ==
  IF h = <<>> THEN 0
  ELSE (IF Head(h) = x THEN 1 ELSE 0) + Occurrences(Tail(h), x)

IsPrefix(a, b) == Len(a) <= Len(b) /\ SubSeq(b, 1, Len(a)) = a

\* number of next() calls of all generators whose result is not yet taken
RECURSIVE OutstandingFrom(_, _)
OutstandingFrom(reqs, j) ==
  IF j \notin DOMAIN reqs THEN 0 ELSE Len(reqs[j]) + OutstandingFrom(reqs, j + 1)

Outstanding == OutstandingFrom(requests, 0)

Live == {pendingPromises[k] : k \in 1..Len(pendingPromises)}

StreamClosed == closeCount > 0

(* ------------------------------ claims -------------------------------- *)
\* C1: the merged output restricted to one producer's id equals the
\* sequence that producer yields standalone: at every moment the events
\* written for job j are a prefix of what generator j yields, and once the
\* stream is closed every event a generator has yielded has been written
\* exactly once, in the generator's order
C1_MergedEqualsStandalone ==
  \A j \in Jobs :
    /\ IsPrefix(Restrict(out, j), YieldsOf(upHist[j], j))
    /\ StreamClosed => Restrict(out, j) = YieldsOf(upHist[j], j)

\* what the merge loop keeps of this on every run: the events written for
\* a job are always a prefix of what its generator yields, and they are all
\* of them when the stream is closed and no next() has rejected
MergedEqualsStandaloneUnlessRejected ==
  \A j \in Jobs :
    /\ IsPrefix(Restrict(out, j), YieldsOf(upHist[j], j))
    /\ (StreamClosed /\ \A g \in Jobs : gst[g] # "threw") =>
         Restrict(out, j) = YieldsOf(upHist[j], j)

\* C2: each generator has at most one next() call whose result the loop
\* has not taken (unresolved, or resolved and not yet taken)
C2_OneOutstandingPerProducer ==
  \A g \in Jobs : Len(requests[g]) <= 1

\* a generator whose first event has been written and whose replacement
\* next() is outstanding, while another generator's result waits untaken
C2_Witness ==
  \E g \in Jobs :
    /\ Len(Restrict(out, g)) >= 1
    /\ Len(requests[g]) = 1
    /\ \E h \in Jobs : h # g /\ Len(requests[h]) = 1 /\ Settled(requests[h][1])

\* C3: the complete event is written exactly once in every run, it is the
\* last frame of the stream, and it is written only when the Map is empty
C3_AllDoneOnceLast ==
  /\ CountType(out, "complete") <= 1
  /\ CountType(out, "complete") = 1 =>
       out[Len(out)] = CompleteEvent /\ pendingPromises = <<>>
  /\ StreamClosed => CountType(out, "complete") = 1

\* what holds of the complete frame on every run: it is written at most
\* once, last, and only when the Map is empty
CompleteAtMostOnceLast ==
  /\ CountType(out, "complete") <= 1
  /\ CountType(out, "complete") = 1 =>
       out[Len(out)] = CompleteEvent /\ pendingPromises = <<>> /\ pc = "done"

\* C4: while the run is on, the number of outstanding next() calls equals
\* the number of generators in pendingPromises, and it is never larger
C4_OutstandingEqualsLive ==
  /\ Outstanding <= Len(pendingPromises)
  /\ pc \in {"loop", "done"} => Outstanding = Len(pendingPromises)
  /\ \A g \in Jobs : Len(requests[g]) > 0 => g \in Live

\* the run is on, one generator has been removed and others are live
C4_Witness ==
  /\ pc = "loop"
  /\ Len(pendingPromises) >= 1
  /\ Len(pendingPromises) < Len(queries)
  /\ Len(out) >= 1

\* position of g in the arrival record, 0 if absent
RECURSIVE PosFrom(_, _, _)
PosFrom(seq, g, i) ==
  IF i > Len(seq) THEN 0
  ELSE IF seq[i] = g THEN i
  ELSE PosFrom(seq, g, i + 1)

\* the generators whose yielded event settled before the one the loop is
\* about to take and has not been taken
AheadOfWinner ==
  {g \in Jobs : /\ PosFrom(arrived, g, 1) > 0
                /\ PosFrom(arrived, g, 1) < PosFrom(arrived, winner, 1)
                /\ Len(requests[g]) > 0
                /\ MapPromise(requests, g).st = "value"}

\* C5 (as stated): events are written in the order in which their next()
\* calls resolved: when the loop writes an event, no event that resolved
\* earlier is still waiting to be written
C5_EmissionInArrivalOrder ==
  [][LoopValue => AheadOfWinner = {}]_vars

\* C5 (amended): an event is written ahead of an earlier-resolved one only
\* when it belongs to a generator that comes first in the Map (a lower
\* job id): no event is overtaken by one of a higher job id
C5_OvertakenOnlyByLowerId ==
  [][LoopValue => \A g \in AheadOfWinner : g > winner]_vars

\* the loop is about to write an event although an earlier-resolved event
\* of another generator is waiting
C5_Witness ==
  /\ pc = "loop"
  /\ winner # NoJob
  /\ MapPromise(requests, winner).st = "value"
  /\ AheadOfWinner # {}

\* some generator has thrown: a next() of the run has rejected
SomeRejected == \E g \in Jobs : gst[g] = "threw"

\* C6: once the run is on, if no next() rejects, the Map becomes empty,
\* the complete frame is written and the stream is closed
C6_RunTerminates ==
  (pc = "loop") ~>
     \/ SomeRejected
     \/ /\ pc = "done"
        /\ pendingPromises = <<>>
        /\ Len(out) > 0 /\ out[Len(out)] = CompleteEvent
        /\ closeCount = 1

\* a run of several generators that has ended with the complete frame
\* after writing events
C6_Witness ==
  /\ pc = "done"
  /\ Len(queries) >= 2
  /\ Len(out) >= 3
  /\ ~SomeRejected

\* C7: when a generator fails before yielding anything (its first next()
\* rejects), the closed stream holds exactly one error event with that
\* generator's job, and ends with the complete frame
C7_ImmediateFailureReported ==
  \A g \in Jobs :
    (StreamClosed /\ gst[g] = "threw" /\ upHist[g] = <<>>) =>
       /\ CountType(Restrict(out, g), "error") = 1
       /\ out[Len(out)] = CompleteEvent

\* C8: a generator's failure is reported as an error event that carries
\* its job and does not end the run: the run never takes the fatal path,
\* every error frame has a job, and the closed stream holds every event
\* the other generators have yielded
C8_ProducerErrorNotFatal ==
  /\ pc # "failed"
  /\ \A i \in 1..Len(out) : out[i].type = "error" => out[i].job \in Jobs
  /\ StreamClosed => \A j \in Jobs : Restrict(out, j) = yielded[j]

\* C9 (as stated): after the error event of response.failed the generator
\* yields nothing more: an error event is the last event it yields
C9_NothingAfterError ==
  \A g \in Jobs : \A i \in 1..Len(yielded[g]) :
    yielded[g][i].type = "error" => i = Len(yielded[g])

\* C9 (amended): the generator yields exactly one error event, with its own
\* job, for each response.failed of the upstream and for nothing else, and
\* it goes on consuming the upstream afterwards: what the upstream sends
\* after the failure is yielded like any other event
C9_OneErrorPerFailedEvent ==
  \A g \in Jobs :
    /\ CountType(yielded[g], "error") = Occurrences(upHist[g], "response.failed")
    /\ \A i \in 1..Len(yielded[g]) :
         yielded[g][i].type = "error" =>
           /\ yielded[g][i].job = g
           /\ upHist[g][yielded[g][i].seq] = "response.failed"
    /\ yielded[g] = YieldsOf(upHist[g], g)

\* a generator has yielded another event after its error event
C9_Witness ==
  \E g \in Jobs :
    /\ Len(yielded[g]) = 2
    /\ yielded[g][1].type = "error"
    /\ yielded[g][2].type = "content"

\* the generator has yielded an error event last and its end has been
\* observed by the loop
EndedAfterError(g) ==
  /\ gst[g] = "returned"
  /\ g \notin Live
  /\ Len(yielded[g]) > 0
  /\ yielded[g][Len(yielded[g])].type = "error"

\* C10: a generator that yields an error event and then ends has exactly
\* its yielded events in the output, none after the error event, and the
\* run completes with the complete frame once the Map is empty
C10_ErrorThenEndCompletes ==
  \A g \in Jobs :
    EndedAfterError(g) =>
      /\ Restrict(out, g) = yielded[g]
      /\ pc # "failed" \/ SomeRejected
      /\ Live = {} => /\ pc = "done"
                      /\ out[Len(out)] = CompleteEvent
                      /\ closeCount = 1

\* a run completed after one generator ended on an error event while
\* another one delivered content
C10_Witness ==
  /\ pc = "done"
  /\ \E g \in Jobs : EndedAfterError(g)
  /\ \E h \in Jobs : Len(yielded[h]) > 0 /\ yielded[h][1].type = "content"

(* ---------------------------- validation ----------------------------- *)
\* the query list a body asks for has no entry, or an entry that is empty
\* or missing; a body with neither `queries` nor `query` is the one whose
\* single entry is missing
BadBody(b) ==
  \/ b.isArray /\ Len(b.queries) = 0
  \/ b.isArray /\ \E i \in 1..Len(b.queries) : b.queries[i] = FALSE
  \/ ~b.isArray /\ b.query = FALSE

\* number of queries of a body that are non-empty
GoodCount(b) ==
  IF b.isArray THEN Cardinality({i \in 1..Len(b.queries) : b.queries[i]})
  ELSE IF b.query THEN 1 ELSE 0

\* C14: a request with an empty list, or with an empty or missing entry,
\* is answered 400 with no stream and no producer; every other request
\* opens exactly one producer per query, each with its first request
C14_ValidationBeforeProducers ==
  [][\A b \in Bodies :
       (PostReject(b) \/ PostStart(b)) =>
         IF BadBody(b)
           THEN /\ pc' = "rejected"
                /\ gst' = <<>> /\ requests' = <<>>
                /\ out' = <<>> /\ closeCount' = 0
           ELSE /\ pc' = "loop"
                /\ DOMAIN gst' = 0 .. (GoodCount(b) - 1)
                /\ GoodCount(b) >= 1
                /\ \A g \in DOMAIN gst' :
                     gst'[g] = "running" /\ Len(requests'[g]) = 1]_vars

\* a request was rejected: no producer and no stream exist
C14_Witness ==
  /\ pc = "rejected"
  /\ gst = <<>>
  /\ out = <<>>

(* ------------------------------ framing ------------------------------- *)
\* the result of generator g that the loop is about to take is an event
ValueReady(g) ==
  /\ pc = "loop"
  /\ winner = g
  /\ MapPromise(requests, g).st = "value"

\* events generator g has yielded that no frame has been written for
Unwritten(g) == Len(yielded[g]) - Len(Restrict(out, g))

\* the frames of every producer are its yielded events in order, each
\* once; the only event without a frame is the one held by the settled
\* promise of the Map that the loop has not taken yet
WrittenUpToLast ==
  \A g \in Jobs :
    /\ IsPrefix(Restrict(out, g), yielded[g])
    /\ Unwritten(g) <= 1
    /\ (Unwritten(g) = 1 /\ pc = "loop") =>
         /\ g \in Live
         /\ MapPromise(requests, g) =
              [st |-> "value", ev |-> yielded[g][Len(yielded[g])]]

\* the loop takes an event: its frame, and nothing else, is appended to
\* the stream in the same step, before the replacing next() is pending
\* and before the loop waits in the next race
FrameBeforeNextRequest ==
  \A g \in Jobs :
    (ValueReady(g) /\ requests'[g] # requests[g]) =>
      /\ out' = Append(out, MapPromise(requests, g).ev)
      /\ MapPromise(requests', g) = PendingReq
      /\ pc' = "loop"

\* C15: each event the merge loop emits is written as exactly one frame,
\* frames are in emission order, and an event's frame is written before the
\* loop requests or waits for any further event
C15_OneFramePerEventInOrder ==
  []WrittenUpToLast /\ [][FrameBeforeNextRequest]_vars

\* the frame of a producer's event has been written and a yielded event
\* is waiting in the Map for the loop to take it
C15_Witness ==
  /\ pc = "loop"
  /\ \E g \in Jobs : Len(Restrict(out, g)) >= 1
  /\ \E g \in Jobs : Unwritten(g) = 1

(* ----------------------------- job ids -------------------------------- *)
\* C16: every frame written to the stream, on every path, carries a job
\* unless its type is 'complete'
C16_OnlyCompleteLacksJob ==
  \A i \in 1..Len(out) : out[i].job = NoJob => out[i].type = "complete"

\* the ids the generators of the run were opened with
JobIds == {JobIdOf(i) : i \in DOMAIN gst}

\* C17: the producers of a run have the ids 0..N-1, one each, N the number
\* of queries; every event the producer opened at index i has yielded
\* carries job i, and so does every frame written for it
C17_DenseStableJobIds ==
  /\ DOMAIN gst = 0 .. (Len(queries) - 1)
  /\ JobIds = 0 .. (Len(queries) - 1)
  /\ \A i, j \in DOMAIN gst : JobIdOf(i) = JobIdOf(j) => i = j
  /\ \A i \in DOMAIN gst :
       \A k \in 1..Len(yielded[i]) : yielded[i][k].job = i
  /\ \A k \in 1..Len(out) : out[k].job \in JobIds \cup {NoJob}

\* two producers of a run have each yielded an event
C17_Witness ==
  /\ Len(queries) >= 2
  /\ \E i, j \in DOMAIN gst :
       i # j /\ Len(yielded[i]) > 0 /\ Len(yielded[j]) > 0

\* C18: when 'complete' is written every producer has had its 'done' or
\* 'error' frame written earlier, also a producer whose upstream simply
\* ended
C18_TerminalEventBeforeAllDone ==
  \A k \in 1..Len(out) :
    out[k].type = "complete" =>
      \A g \in Jobs :
        \E i \in 1..(k - 1) :
          out[i].job = g /\ out[i].type \in {"done", "error"}

(* ------------------------- the working set ---------------------------- *)
\* C24: a replacement next() of a producer is issued only after the event
\* it replaces has been emitted: while the loop runs, a producer whose Map
\* entry is an unsettled request has every event it yielded in the output
C24_EmitBeforeReplacement ==
  pc = "loop" =>
    \A g \in Live :
      MapPromise(requests, g).st = "pending" => Restrict(out, g) = yielded[g]

\* the replacement request of a producer is outstanding and the event it
\* replaced is in the output
C24_Witness ==
  /\ pc = "loop"
  /\ \E g \in Live :
       /\ MapPromise(requests, g).st = "pending"
       /\ Len(yielded[g]) >= 1
       /\ Restrict(out, g) = yielded[g]

\* the loop takes the result of the Map entry of g in this step
LoopTakes(g) ==
  /\ pc = "loop"
  /\ winner = g
  /\ requests'[g] # requests[g]

\* C25: an error event is handled like any other event: its frame is
\* written, its producer stays in the Map at its place and a next() is
\* issued for it; a producer leaves the Map only when its result is done
C25_ErrorEventKeepsProducer ==
  [][\A g \in Jobs :
       /\ (LoopTakes(g) /\ MapPromise(requests, g).st = "value"
             /\ MapPromise(requests, g).ev.type = "error") =>
            /\ out' = Append(out, MapPromise(requests, g).ev)
            /\ pendingPromises' = pendingPromises
            /\ MapPromise(requests', g) = PendingReq
       /\ (g \in Live /\ g \notin Live') =>
            LoopTakes(g) /\ MapPromise(requests, g).st = "done"]_vars

\* the frame of an error event has been written and its producer has a
\* new request outstanding
C25_Witness ==
  /\ pc = "loop"
  /\ \E g \in Live :
       /\ \E i \in 1..Len(out) : out[i].type = "error" /\ out[i].job = g
       /\ MapPromise(requests, g).st = "pending"

\* C26: the Map only loses entries once the run is on: a producer is
\* deleted in the step that takes its done result, no next() is issued
\* for it then or later, and it never enters the Map again
C26_WorkingSetOnlyShrinks ==
  [][pc = "loop" =>
       /\ Live' \subseteq Live
       /\ \A g \in Jobs :
            /\ (LoopTakes(g) /\ MapPromise(requests, g).st = "done") =>
                 g \notin Live' /\ requests'[g] = <<>>
            /\ g \notin Live => requests[g] = <<>> /\ requests'[g] = <<>>]_vars

\* a producer has been deleted from the Map while another one is still in
\* it
C26_Witness ==
  /\ pc = "loop"
  /\ \E g \in Jobs : g \notin Live /\ gst[g] = "returned"
  /\ Live # {}

(* ---------------------------- tie-breaking ---------------------------- *)
\* the generators whose Map entry has settled and has not been taken
SettledInMap(keys, reqs) ==
  {keys[k] : k \in {i \in 1..Len(keys) : Settled(MapPromise(reqs, keys[i]))}}

\* the lowest id of a set of generators, NoJob for the empty set
LowestOf(S) ==
  IF S = {} THEN NoJob ELSE CHOOSE g \in S : \A h \in S : g <= h

\* the Map lists the generators it holds in the order of their ids:
\* replacing the entry of a generator keeps its place
MapInIdOrder ==
  \A i, j \in 1..Len(pendingPromises) :
    i < j => pendingPromises[i] < pendingPromises[j]

\* when the loop comes to wait again, the result it will take is the one
\* of the lowest-id generator among those already settled, if there is one
LowestSettledWins ==
  ((LoopValue \/ LoopDone) /\ pc' = "loop") =>
    winner' = LowestOf(SettledInMap(pendingPromises', requests'))

\* C27: when several requests have settled at the moment the loop waits,
\* it takes the one of the producer with the lowest id, the Map keeping
\* every producer at its original place: the choice is a function of which
\* requests have settled
C27_LowestIdFirst ==
  []MapInIdOrder /\ [][LowestSettledWins]_vars

\* two results were waiting when the loop came to wait, and the one it
\* takes is of the lowest id although it did not settle first
C27_Witness ==
  /\ pc = "loop"
  /\ winner # NoJob
  /\ Cardinality(SettledInMap(pendingPromises, requests)) >= 2
  /\ winner = LowestOf(SettledInMap(pendingPromises, requests))
  /\ arrived # <<>>
  /\ Head(arrived) # winner

(* --------------------------- the fatal path --------------------------- *)
\* the loop takes the rejected next() of generator g in this step
RejectionTaken(g) == LoopTakes(g) /\ MapPromise(requests, g).st = "rejected"

\* the stream of a run that has failed: its last frame is the one error
\* frame without job, it holds no 'complete' frame and it is closed
FailedStream ==
  pc = "failed" =>
    /\ Len(out) >= 1 /\ out[Len(out)] = FatalErrorFrame
    /\ Occurrences(out, FatalErrorFrame) = 1
    /\ CountType(out, "complete") = 0
    /\ closeCount = 1

\* the step that takes a rejection writes the error frame and ends the
\* run; nothing is written and no result is taken after it
StopsAtRejection ==
  /\ \A g \in Jobs :
       RejectionTaken(g) =>
         /\ out' = Append(out, FatalErrorFrame)
         /\ pc' = "failed"
         /\ pendingPromises' = pendingPromises
  /\ pc = "failed" =>
       /\ out' = out /\ pc' = "failed" /\ closeCount' = closeCount
       /\ pendingPromises' = pendingPromises

CloseOnce ==
  /\ closeCount <= 1
  /\ pc \in {"done", "failed"} <=> closeCount = 1
  /\ closeCount = 1 => out # <<>> /\ out[Len(out)] \in {CompleteEvent, FatalErrorFrame}

C29_ClosedOnceNothingAfter ==
  []CloseOnce /\ [][closeCount >= 1 => (out' = out /\ closeCount' = closeCount)]_vars

\* a run has ended on the failure path with its stream closed
C29_Witness ==
  /\ pc = "failed"
  /\ closeCount = 1
  /\ out[Len(out)] = FatalErrorFrame

(* ----------------------------- fairness ------------------------------- *)
\* a step of generator g
GenStep(g) ==
  /\ g \in Jobs
  /\ \/ \E t \in UpTypes : GenEvent(g, t)
     \/ GenEnd(g)
     \/ GenThrow(g)

\* the continuation of the loop after Promise.race settles
LoopStep == LoopValue \/ LoopDone \/ LoopCatch

\* the steps of a run of at most LiveMaxProducers generators
LiveNext ==
  \/ \E body \in Bodies : PostReject(body)
  \/ \E body \in Bodies :
       Len(QueriesOf(body)) <= LiveMaxProducers /\ PostStart(body)
  \/ \E g \in Jobs, t \in UpTypes : GenEvent(g, t)
  \/ \E g \in Jobs : GenEnd(g)
  \/ \E g \in Jobs : GenThrow(g)
  \/ LoopValue
  \/ LoopDone
  \/ LoopCatch

\* the runs of at most LiveMaxProducers generators, under any scheduling
SmallSpec == Init /\ [][LiveNext]_vars

\* every upstream answers in the end and the event loop runs every
\* continuation that is ready
LiveSpec ==
  /\ Init
  /\ [][LiveNext]_vars
  /\ WF_vars(LoopStep)
  /\ \A g \in 0..(LiveMaxProducers - 1) : WF_vars(GenStep(g))

(* ------------------- runs with a consumer on the stream ---------------- *)
TMaxProducers == 2

\* the steps of a run of at most TMaxProducers generators whose response
\* stream is read, and may be cancelled, by the consumer
TransportNext ==
  \/ \E body \in Bodies :
       Len(QueriesOf(body)) <= TMaxProducers /\ PostStart(body)
  \/ \E g \in Jobs, t \in UpTypes : GenEvent(g, t)
  \/ \E g \in Jobs : GenEnd(g)
  \/ \E g \in Jobs : GenThrow(g)
  \/ LoopValue
  \/ LoopDone
  \/ LoopCatch
  \/ LoopEnqueueThrows
  \/ ConsumerRead
  \/ Disconnect

TransportSpec == Init /\ [][TransportNext]_vars

\* frames written and not yet read by the consumer
Backlog == Len(out) - readCount

\* the stream's queue holds as much as its default strategy asks for (one
\* chunk): controller.desiredSize is not positive
TransportFull == Backlog > 0

\* C11: once the consumer has disconnected, every producer is cancelled:
\* no producer consumes a further upstream event, no request of the run
\* settles with a new event and no further frame is written
C11_DisconnectCancelsProducers ==
  [][cancelled => (upHist' = upHist /\ yielded' = yielded /\ out' = out)]_vars

\* C12: once a write to the transport has failed the run is over for every
\* producer: the remaining producers have been cancelled, so none is still
\* running with an outstanding request
C12_WriteFailureEndsRun ==
  pc = "aborted" => \A g \in Jobs : ~(gst[g] = "running" /\ Asked(g))

\* C13: while the transport is full the sink pulls nothing from the
\* producers, so no frame is added to the frames the consumer has not read
C13_NoWriteWhileFull ==
  [][TransportFull => out' = out]_vars

(* ------------------------- frames on the wire -------------------------- *)
\* largest number of frames of a byte stream given to the decoder
MaxFrames == 2

\* text is a sequence of one-character strings; the tokens of a JSON text
\* that no line split or prefix test can tell apart from single characters
\* (a key with its colon, a type name, a number) are kept whole
NL == "\n"
Quote == "\""
Backslash == "\\"

\* string payloads: empty, plain, with a line break
Payloads == {<<>>, <<"x">>, <<NL>>, <<"x", NL>>}

\* the events whose frames are decoded: [type, job, text], job NoJob when
\* the field is absent, text the `content` or `error` string (empty for
\* the types that have none); item ids and timestamps are left out
DecEvents ==
  {[type |-> "content", job |-> j, text |-> p] : j \in 0..1, p \in Payloads}
  \cup {[type |-> ty, job |-> j, text |-> <<>>] :
          ty \in {"text_done", "web_search_searching", "web_search_completed",
                  "done"},
          j \in 0..1}
  \cup {[type |-> "error", job |-> 0, text |-> <<"x">>],
        [type |-> "error", job |-> NoJob, text |-> <<"x">>],
        [type |-> "complete", job |-> NoJob, text |-> <<>>]}

\* the types whose event has a string field, and the key of that field
TextTypes == {"content", "error"}
KeyOf(ty) == IF ty = "error" THEN "error:" ELSE "content:"

\* a job number as JSON text and back
Digits == <<"0", "1", "2">>
JobText(j) == Digits[j + 1]
JobNum(d) == (CHOOSE i \in 1..Len(Digits) : Digits[i] = d) - 1

\* mutant of EscapeString: characters are copied as they are
RECURSIVE EscapeStringRaw(_)
EscapeStringRaw(p) ==
  IF p = <<>> THEN <<>> ELSE <<Head(p)>> \o EscapeStringRaw(Tail(p))

\* JSON.stringify of a string, between the quotes: line breaks, quotes and
\* backslashes are escaped
RECURSIVE EscapeString(_)
EscapeString(p) ==
  IF p = <<>> THEN <<>>
  ELSE (IF Head(p) = NL THEN <<Backslash, "n">>
        ELSE IF Head(p) \in {Quote, Backslash} THEN <<Backslash, Head(p)>>
        ELSE <<Head(p)>>) \o EscapeString(Tail(p))

\* JSON.stringify(result.value)
Stringify(ev) ==
  <<"{", "type:", ev.type>>
  \o (IF ev.job # NoJob THEN <<"job:", JobText(ev.job)>> ELSE <<>>)
  \o (IF ev.type \in TextTypes
        THEN <<KeyOf(ev.type), Quote>> \o EscapeString(ev.text) \o <<Quote>>
        ELSE <<>>)
  \o <<"}">>

DataPrefix == <<"d", "a", "t", "a", ":", " ">>

\* encoder.encode(`data: ${data}\n\n`)
EncodeFrame(ev) == DataPrefix \o Stringify(ev) \o <<NL, NL>>

\* the result of a parse that throws
ParseFail == [ok |-> FALSE, ev |-> NoEv, chars |-> <<>>, rest |-> <<>>]

\* the characters of a JSON string up to its closing quote, unescaped, and
\* the text after it; a raw line break or an unknown escape is an error
RECURSIVE ParseString(_, _)
ParseString(r, acc) ==
  IF r = <<>> THEN ParseFail
  ELSE IF Head(r) = Quote
    THEN [ok |-> TRUE, ev |-> NoEv, chars |-> acc, rest |-> Tail(r)]
  ELSE IF Head(r) = NL THEN ParseFail
  ELSE IF Head(r) = Backslash
    THEN IF Len(r) < 2 THEN ParseFail
         ELSE IF r[2] = "n" THEN ParseString(SubSeq(r, 3, Len(r)), Append(acc, NL))
         ELSE IF r[2] \in {Quote, Backslash}
           THEN ParseString(SubSeq(r, 3, Len(r)), Append(acc, r[2]))
         ELSE ParseFail
  ELSE ParseString(Tail(r), Append(acc, Head(r)))

\* the members of an object after `type`, up to the closing brace
RECURSIVE ParseMembers(_, _)
ParseMembers(r, ev) ==
  IF r = <<>> THEN ParseFail
  ELSE IF r = <<"}">> THEN [ok |-> TRUE, ev |-> ev, chars |-> <<>>, rest |-> <<>>]
  ELSE IF Head(r) = "job:"
    THEN IF Len(r) >= 2 /\ \E i \in 1..Len(Digits) : Digits[i] = r[2]
           THEN ParseMembers(SubSeq(r, 3, Len(r)), [ev EXCEPT !.job = JobNum(r[2])])
           ELSE ParseFail
  ELSE IF Head(r) \in {"content:", "error:"}
    THEN IF Len(r) >= 2 /\ r[2] = Quote
           THEN LET str == ParseString(SubSeq(r, 3, Len(r)), <<>>)
                IN IF str.ok
                     THEN ParseMembers(str.rest, [ev EXCEPT !.text = str.chars])
                     ELSE ParseFail
           ELSE ParseFail
  ELSE ParseFail

\* JSON.parse(data): the text must be one whole object
JSONParse(data) ==
  IF Len(data) >= 4 /\ data[1] = "{" /\ data[2] = "type:"
    THEN ParseMembers(SubSeq(data, 4, Len(data)),
                      [type |-> data[3], job |-> NoJob, text |-> <<>>])
    ELSE ParseFail

\* chunk.split('\n'): the pieces between line breaks, empty ones included
RECURSIVE SplitLines(_, _)
SplitLines(chunk, line) ==
  IF chunk = <<>> THEN <<line>>
  ELSE IF Head(chunk) = NL THEN <<line>> \o SplitLines(Tail(chunk), <<>>)
  ELSE SplitLines(Tail(chunk), Append(line, Head(chunk)))

\* line.startsWith('data: ')
StartsWithData(line) ==
  Len(line) >= Len(DataPrefix) /\ SubSeq(line, 1, Len(DataPrefix)) = DataPrefix

\* the body of the for loop over the lines of one chunk: line.slice(6) is
\* parsed; a line without the prefix is skipped and a parse error is only
\* logged
RECURSIVE DecodeLines(_)
DecodeLines(lines) ==
  IF lines = <<>> THEN <<>>
  ELSE LET line == Head(lines)
           data == SubSeq(line, Len(DataPrefix) + 1, Len(line))
       IN (IF StartsWithData(line) /\ JSONParse(data).ok
             THEN <<JSONParse(data).ev>> ELSE <<>>)
          \o DecodeLines(Tail(lines))

\* decoder.decode(value) and the loop over chunk.split('\n'): nothing is
\* kept from one chunk to the next
DecodeChunk(chunk) == DecodeLines(SplitLines(chunk, <<>>))

\* the server has written the frames of the events evs, one chunk each
ServerWrote(evs) ==
  /\ sent = <<>>
  /\ wire = <<>>
  /\ pc = "idle"
  /\ sent' = evs
  /\ wire' = [i \in 1..Len(evs) |-> EncodeFrame(evs[i])]
  /\ UNCHANGED <<pc, queries, gst, yielded, upHist, requests, pendingPromises,
                 winner, out, closeCount, arrived, transportVars, decoded, split,
                 uiVars>>

\* the transport delivers two chunks that follow each other as one
TransportJoin(i) ==
  /\ i \in 1..(Len(wire) - 1)
  /\ wire' = SubSeq(wire, 1, i - 1) \o <<wire[i] \o wire[i + 1]>>
             \o SubSeq(wire, i + 2, Len(wire))
  /\ UNCHANGED <<pc, queries, gst, yielded, upHist, requests, pendingPromises,
                 winner, out, closeCount, arrived, transportVars, sent, decoded,
                 split, uiVars>>

\* the transport delivers chunk i as two chunks, cut after its k-th
\* character; once in a run
TransportSplit(i, k) ==
  /\ ~split
  /\ i \in 1..Len(wire)
  /\ k \in 1..(Len(wire[i]) - 1)
  /\ wire' = SubSeq(wire, 1, i - 1)
             \o <<SubSeq(wire[i], 1, k), SubSeq(wire[i], k + 1, Len(wire[i]))>>
             \o SubSeq(wire, i + 1, Len(wire))
  /\ split' = TRUE
  /\ UNCHANGED <<pc, queries, gst, yielded, upHist, requests, pendingPromises,
                 winner, out, closeCount, arrived, transportVars, sent, decoded,
                 uiVars>>

\* one turn of the reader loop: reader.read() gives the next chunk and
\* the events parsed from it are handled
ReaderRead ==
  /\ wire # <<>>
  /\ decoded' = decoded \o DecodeChunk(Head(wire))
  /\ wire' = Tail(wire)
  /\ UNCHANGED <<pc, queries, gst, yielded, upHist, requests, pendingPromises,
                 winner, out, closeCount, arrived, transportVars, sent, split,
                 uiVars>>

\* the byte streams of one to MaxFrames frames
FrameLists == UNION {[1..n -> DecEvents] : n \in 1..MaxFrames}

\* the client reads a stream whose chunks are whole frames
DecoderNext ==
  \/ \E evs \in FrameLists : ServerWrote(evs)
  \/ \E i \in 1..Len(wire) : TransportJoin(i)
  \/ ReaderRead

DecoderSpec == Init /\ [][DecoderNext]_vars

\* the client reads a stream that the transport may cut anywhere
ChunkNext ==
  \/ \E evs \in FrameLists : ServerWrote(evs)
  \/ \E i \in 1..Len(wire) : TransportJoin(i)
  \/ \E i \in 1..Len(wire) : \E k \in 1..Len(wire[i]) : TransportSplit(i, k)
  \/ ReaderRead

ChunkSpec == Init /\ [][ChunkNext]_vars

\* the reader has returned every chunk of a stream that was sent
AllRead == sent # <<>> /\ wire = <<>>

\* C19: every frame that reaches the client whole, alone in its chunk or
\* with other whole frames, is decoded into the event it was made from
C19_EncodeDecodeIdentity ==
  /\ IsPrefix(decoded, sent)
  /\ AllRead => decoded = sent
  /\ (Len(wire) = 1 /\ wire[1] = EncodeFrame(sent[Len(sent)])) =>
       decoded \o DecodeChunk(wire[1]) = sent

\* a stream of two frames, one with a line break in its content, has been
\* read in whole frames
C19_Witness ==
  /\ AllRead
  /\ Len(sent) = 2
  /\ \E i \in 1..Len(sent) : sent[i].type = "content" /\ sent[i].text = <<"x", NL>>
  /\ decoded = sent

\* C20: however the transport cuts the byte stream into chunks, the client
\* decodes the events that were sent, each once and in order
C20_ChunkingInvariant ==
  AllRead => decoded = sent

(* ------------------------ the earlier merge loop ----------------------- *)
\* largest number of queries of a run of the earlier route
NaiveMaxProducers == 2
\* largest number of upstream events delivered in such a run
NaiveMaxEvents == 1

\* mutant of IssueNextActive: only the generator whose result was taken
\* gets a new next()
IssueNextForTaken(reqs, keys, g) ==
  IF \E k \in 1..Len(keys) : keys[k] = g THEN IssueNext(reqs, g) ELSE reqs

\* Array.from(activeGenerators).map(async (gen) => ({ gen, result: await
\* gen.next() })): one more next() on every active generator, whichever
\* generator g gave the result of the iteration before
IssueNextActive(reqs, keys, g) ==
  [j \in DOMAIN reqs |->
     IF \E k \in 1..Len(keys) : keys[k] = j THEN Append(reqs[j], PendingReq)
     ELSE reqs[j]]

\* the earlier route up to its first await: the generators, the Set
\* activeGenerators (kept in pendingPromises), the promises of the first
\* iteration and Promise.race over them
NaiveStart(body) ==
  /\ Len(QueriesOf(body)) <= NaiveMaxProducers
  /\ PostStart(body)

\* a generator that has returned or thrown answers a queued next() with
\* done
GenAfterEnd(g) ==
  /\ gst[g] \in {"returned", "threw"}
  /\ Asked(g)
  /\ Settle(g, "done", NoEv)
  /\ UNCHANGED <<pc, queries, gst, upHist, pendingPromises, out, closeCount,
                 transportVars, clientVars, uiVars>>

\* the race of this iteration gave an event: it is written, and the next
\* iteration makes new promises for all active generators; the promises of
\* this iteration that did not win are dropped with whatever they give
NaiveLoopValue ==
  /\ pc = "loop"
  /\ winner # NoJob
  /\ MapPromise(requests, winner).st = "value"
  /\ requests' = IssueNextActive(TakeResult(requests, winner), pendingPromises,
                                 winner)
  /\ pendingPromises' = pendingPromises
  /\ arrived' = <<>>
  /\ LoopBack(pendingPromises', requests',
              Enqueue(out, MapPromise(requests, winner).ev))
  /\ UNCHANGED <<queries, gst, yielded, upHist, transportVars, clientVars, uiVars>>

\* the race of this iteration gave done: activeGenerators.delete(gen)
NaiveLoopDone ==
  /\ pc = "loop"
  /\ winner # NoJob
  /\ MapPromise(requests, winner).st = "done"
  /\ pendingPromises' = MapDelete(pendingPromises, winner)
  /\ requests' = IssueNextActive(TakeResult(requests, winner), pendingPromises',
                                 winner)
  /\ arrived' = <<>>
  /\ LoopBack(pendingPromises', requests', out)
  /\ UNCHANGED <<queries, gst, yielded, upHist, transportVars, clientVars, uiVars>>

\* the race of this iteration rejected: the catch block of the earlier
\* route
NaiveLoopCatch ==
  /\ pc = "loop"
  /\ winner # NoJob
  /\ MapPromise(requests, winner).st = "rejected"
  /\ requests' = TakeResult(requests, winner)
  /\ arrived' = <<>>
  /\ out' = Enqueue(out, FatalErrorFrame)
  /\ closeCount' = closeCount + 1
  /\ pc' = "failed"
  /\ winner' = NoJob
  /\ UNCHANGED <<queries, gst, yielded, upHist, pendingPromises,
                 transportVars, clientVars, uiVars>>

NaiveNext ==
  \/ \E body \in Bodies : NaiveStart(body)
  \/ \E g \in Jobs, t \in UpTypes : TotalUp < NaiveMaxEvents /\ GenEvent(g, t)
  \/ \E g \in Jobs : GenEnd(g)
  \/ \E g \in Jobs : GenThrow(g)
  \/ \E g \in Jobs : GenAfterEnd(g)
  \/ NaiveLoopValue
  \/ NaiveLoopDone
  \/ NaiveLoopCatch

NaiveSpec == Init /\ [][NaiveNext]_vars

\* number of next() calls of g that settled with an event nobody has taken
RECURSIVE ValuesHeld(_)
ValuesHeld(rs) ==
  IF rs = <<>> THEN 0
  ELSE (IF Head(rs).st = "value" THEN 1 ELSE 0) + ValuesHeld(Tail(rs))

\* every event a generator has yielded is either written or held by a
\* promise whose result was not taken
YieldedWrittenOrHeld ==
  \A g \in Jobs :
    Len(yielded[g]) = Len(Restrict(out, g)) + ValuesHeld(requests[g])

\* an iteration of the earlier loop calls next() on every generator still
\* active, also on those whose earlier next() is unsettled, and never
\* comes back to a promise of an earlier iteration
RepollsEveryActive ==
  (NaiveLoopValue \/ NaiveLoopDone) =>
    \A g \in Jobs :
      /\ g \in Live' =>
           /\ MapPromise(requests', g) = PendingReq
           /\ g # winner => Len(requests'[g]) = Len(requests[g]) + 1
      /\ \A i \in 1..(Len(requests[g]) - 1) : requests'[g][i] = requests[g][i]

\* C22: in the earlier loop every iteration polls every active producer
\* again, so a producer that did not win has more than one outstanding
\* request, and an event delivered to a request of an earlier iteration is
\* held by a promise that is never read: it is never written
C22_NaiveLoopDropsEvents ==
  []YieldedWrittenOrHeld /\ [][RepollsEveryActive]_vars

\* a run of the earlier loop has ended with 'complete' although an event a
\* producer yielded was never written: it is held by a promise of an
\* earlier iteration
C22_Witness ==
  /\ pc = "done"
  /\ out[Len(out)] = CompleteEvent
  /\ \E g \in Jobs :
       /\ Len(yielded[g]) > Len(Restrict(out, g))
       /\ ValuesHeld(requests[g]) >= 1

(* --------------------------- the client page --------------------------- *)
\* the events of the response streams given to the page; job 2 is the id
\* of no job of the page
ClientEvents ==
  {[type |-> "content", job |-> j, text |-> p] :
     j \in 0..NumJobs, p \in {<<"x">>, <<NL>>}}
  \cup {[type |-> ty, job |-> j, text |-> <<>>] :
          ty \in {"web_search_searching", "done"}, j \in 0..(NumJobs - 1)}
  \cup {[type |-> "web_search_completed", job |-> 0, text |-> <<>>],
        [type |-> "text_done", job |-> 0, text |-> <<>>],
        [type |-> "error", job |-> 1, text |-> <<"x">>],
        [type |-> "error", job |-> NoJob, text |-> <<"x">>],
        [type |-> "complete", job |-> NoJob, text |-> <<>>]}

\* the response streams: up to MaxFrames frames
ClientStreams == UNION {[1..n -> ClientEvents] : n \in 0..MaxFrames}

\* hasJobField(event): 'job' in event
hasJobField(ev) == ev.job # NoJob

\* mutant of JobMatches: every job takes the event
JobMatchesAny(id, ev) == TRUE

\* job.id !== event.job, negated
JobMatches(id, ev) == id = ev.job

\* mutant of AppendContent: the new text replaces the old one
ReplaceContent(content, text) == text

\* job.content + (event.content || '')
AppendContent(content, text) == content \o text

\* the switch on event.type for the job the event belongs to
UpdateJob(job, ev) ==
  CASE ev.type = "web_search_searching" ->
         [job EXCEPT !.status = "searching", !.searchCount = @ + 1]
    [] ev.type = "content" ->
         [job EXCEPT !.status = "streaming",
                     !.content = AppendContent(@, ev.text)]
    [] ev.type = "done" -> [job EXCEPT !.status = "done"]
    [] ev.type = "error" -> [job EXCEPT !.status = "error"]
    [] OTHER -> job

\* what the loop body does with one parsed event: 'complete' is only
\* logged, an event without job is skipped, any other goes through
\* setJobs(prev => prev.map(...))
HandleEvent(js, ev) ==
  IF ev.type = "complete" THEN js
  ELSE IF ~hasJobField(ev) THEN js
  ELSE [id \in DOMAIN js |->
          IF JobMatches(id, ev) THEN UpdateJob(js[id], ev) ELSE js[id]]

RECURSIVE HandleEvents(_, _)
HandleEvents(js, evs) ==
  IF evs = <<>> THEN js
  ELSE HandleEvents(HandleEvent(js, Head(evs)), Tail(evs))

\* setJobs(prev => prev.map(job => ({ ...job, status: 'error' })))
AllError(js) == [id \in DOMAIN js |-> [js[id] EXCEPT !.status = "error"]]

\* a click on the button, which is disabled while isRunning: setIsRunning
\* (true), the reset of all jobs, and the fetch is sent
startAllResearch ==
  /\ ~isRunning
  /\ cpc = "idle"
  /\ isRunning' = TRUE
  /\ jobs' = [id \in DOMAIN jobs |->
                [content |-> <<>>, status |-> "searching", searchCount |-> 0]]
  /\ cpc' = "fetching"
  /\ sent' = <<>>
  /\ wire' = <<>>
  /\ decoded' = <<>>
  /\ UNCHANGED <<pc, queries, gst, yielded, upHist, requests, pendingPromises,
                 winner, out, closeCount, arrived, transportVars, split>>

\* fetch resolves with a response whose body carries the frames of evs
FetchOk(evs) ==
  /\ cpc = "fetching"
  /\ cpc' = "reading"
  /\ sent' = evs
  /\ wire' = [i \in 1..Len(evs) |-> EncodeFrame(evs[i])]
  /\ UNCHANGED <<pc, queries, gst, yielded, upHist, requests, pendingPromises,
                 winner, out, closeCount, arrived, transportVars, decoded, split,
                 jobs, isRunning>>

\* fetch rejects: the catch block, then finally
FetchFails ==
  /\ cpc = "fetching"
  /\ jobs' = AllError(jobs)
  /\ isRunning' = FALSE
  /\ cpc' = "idle"
  /\ UNCHANGED <<pc, queries, gst, yielded, upHist, requests, pendingPromises,
                 winner, out, closeCount, arrived, transportVars, clientVars>>

\* the response has no body: throw new Error('No response body'), the
\* catch block, then finally
FetchNoBody ==
  /\ cpc = "fetching"
  /\ jobs' = AllError(jobs)
  /\ isRunning' = FALSE
  /\ cpc' = "idle"
  /\ wire' = <<>>
  /\ UNCHANGED <<pc, queries, gst, yielded, upHist, requests, pendingPromises,
                 winner, out, closeCount, arrived, transportVars, sent, decoded,
                 split>>

\* one turn of the reader loop of the page: the chunk is decoded and its
\* events are handled in order
ClientRead ==
  /\ cpc = "reading"
  /\ wire # <<>>
  /\ decoded' = decoded \o DecodeChunk(Head(wire))
  /\ jobs' = HandleEvents(jobs, DecodeChunk(Head(wire)))
  /\ wire' = Tail(wire)
  /\ UNCHANGED <<pc, queries, gst, yielded, upHist, requests, pendingPromises,
                 winner, out, closeCount, arrived, transportVars, sent, split,
                 isRunning, cpc>>

\* reader.read() gives done: break, then finally
ReadEnd ==
  /\ cpc = "reading"
  /\ wire = <<>>
  /\ isRunning' = FALSE
  /\ cpc' = "idle"
  /\ UNCHANGED <<pc, queries, gst, yielded, upHist, requests, pendingPromises,
                 winner, out, closeCount, arrived, transportVars, clientVars,
                 jobs>>

\* mutant of ReadError: there is no finally block
ReadErrorNoFinally ==
  /\ cpc = "reading"
  /\ jobs' = AllError(jobs)
  /\ cpc' = "idle"
  /\ wire' = <<>>
  /\ UNCHANGED <<pc, queries, gst, yielded, upHist, requests, pendingPromises,
                 winner, out, closeCount, arrived, transportVars, sent, decoded,
                 split, isRunning>>

\* reader.read() rejects (the connection breaks): the catch block, then
\* finally; the rest of the stream is lost
ReadError ==
  /\ cpc = "reading"
  /\ jobs' = AllError(jobs)
  /\ isRunning' = FALSE
  /\ cpc' = "idle"
  /\ wire' = <<>>
  /\ UNCHANGED <<pc, queries, gst, yielded, upHist, requests, pendingPromises,
                 winner, out, closeCount, arrived, transportVars, sent, decoded,
                 split>>

\* the transport joins two chunks of the response the page is reading
ClientJoin(i) ==
  /\ cpc = "reading"
  /\ TransportJoin(i)

ClientNext ==
  \/ startAllResearch
  \/ \E evs \in ClientStreams : FetchOk(evs)
  \/ FetchFails
  \/ FetchNoBody
  \/ \E i \in 1..Len(wire) : ClientJoin(i)
  \/ ClientRead
  \/ ReadEnd
  \/ ReadError

ClientSpec == Init /\ [][ClientNext]_vars

\* C21: 'complete' changes no job; any other event changes at most the job
\* whose id is its `job`; an event whose job is the id of no job, or that
\* has no job, changes nothing
C21_DispatchByJob ==
  \A ev \in ClientEvents :
    LET after == HandleEvent(jobs, ev)
    IN /\ ev.type = "complete" => after = jobs
       /\ \A id \in DOMAIN jobs : id # ev.job => after[id] = jobs[id]
       /\ ev.job \notin DOMAIN jobs => after = jobs
       /\ (ev.job \in DOMAIN jobs /\ ev.type = "done") =>
            after[ev.job].status = "done"

\* the page has handled an event of an unknown job and a 'done' of job 1:
\* job 1 is done and job 0 is as the reset left it
C21_Witness ==
  /\ cpc = "reading"
  /\ \E i \in 1..Len(decoded) : decoded[i].job = NumJobs
  /\ \E i \in 1..Len(decoded) : decoded[i].type = "done" /\ decoded[i].job = 1
  /\ jobs[1].status = "done"
  /\ jobs[0] = [content |-> <<>>, status |-> "searching", searchCount |-> 0]

\* the `content` texts of the content events of evs with job k, joined in
\* order
RECURSIVE ContentOf(_, _)
ContentOf(evs, k) ==
  IF evs = <<>> THEN <<>>
  ELSE (IF Head(evs).type = "content" /\ Head(evs).job = k
          THEN Head(evs).text ELSE <<>>) \o ContentOf(Tail(evs), k)

\* the number of web_search_searching events of evs with job k
RECURSIVE SearchesOf(_, _)
SearchesOf(evs, k) ==
  IF evs = <<>> THEN 0
  ELSE (IF Head(evs).type = "web_search_searching" /\ Head(evs).job = k
          THEN 1 ELSE 0) + SearchesOf(Tail(evs), k)

\* C23: at every point of a run whose frames arrive whole, the content of
\* job k is the texts of the content events received for k so far, joined
\* in order, and its searchCount is the number of web_search_searching
\* events received for k
C23_ContentIsConcatenation ==
  \A k \in DOMAIN jobs :
    /\ jobs[k].content = ContentOf(decoded, k)
    /\ jobs[k].searchCount = SearchesOf(decoded, k)

\* two content events of one job have been received, one after the other
C23_Witness ==
  /\ cpc = "reading"
  /\ Len(decoded) = 2
  /\ decoded[1] = [type |-> "content", job |-> 0, text |-> <<"x">>]
  /\ decoded[2] = [type |-> "content", job |-> 0, text |-> <<NL>>]
  /\ jobs[0].content = <<"x", NL>>

\* isRunning is true exactly while startAllResearch is under way
RunningWhileUnderWay == isRunning <=> cpc # "idle"

\* the run ends in this step
RunEnds == cpc # "idle" /\ cpc' = "idle"

\* the end of a run sets isRunning to false; when it is the end by a fetch
\* or read error or a missing body every job has status 'error'; no run
\* starts while isRunning is true
EndsAndStarts ==
  /\ RunEnds => ~isRunning'
  /\ (FetchFails \/ FetchNoBody \/ ReadError) =>
       RunEnds /\ \A id \in DOMAIN jobs' : jobs'[id].status = "error"
  /\ isRunning => cpc' # "fetching" \/ cpc = "fetching"
  /\ (cpc' = "fetching" /\ cpc # "fetching") => (~isRunning /\ isRunning')

\* C30: isRunning is true from the start of startAllResearch until the
\* response ends or fails, false afterwards on every path; a fetch or read
\* error sets every job's status to 'error'; no second run starts while
\* isRunning is true
C30_RunningFlag ==
  []RunningWhileUnderWay /\ [][EndsAndStarts]_vars

\* a read error has ended a run whose first event had been handled
C30_Witness ==
  /\ cpc = "idle"
  /\ ~isRunning
  /\ Len(decoded) >= 1
  /\ Len(sent) > Len(decoded)
  /\ \A id \in DOMAIN jobs : jobs[id].status = "error"
====
